---- MODULE Spec2Model ----
(***************************************************************************)
(* String-casing utilities: toCamelCase and toDotCase (refined_prompt.js), *)
(* toKebabCase (chain_prompt.js) and the few-shot toCamelCase              *)
(* (few_shot_prompt.js).  A JavaScript string is a sequence of character   *)
(* codes; a JavaScript value is a record with a type tag.  Each function   *)
(* is an operator computed step by step as the source computes it, and an  *)
(* action per function applies it to an input drawn in Init.               *)
(***************************************************************************)
EXTENDS Integers, Sequences, FiniteSets, TLC

\* Bounds of the model: longest input string, largest magnitude of a number.
MaxLen == 4
MaxNum == 11

VARIABLES input, fn, out, fed

vars == <<input, fn, out, fed>>

-----------------------------------------------------------------------------
(* Character classes, as the regular expressions of the source spell them. *)

\* [A-Z]
UpperAZ == 65 .. 90
\* [a-z]
LowerAZ == 97 .. 122
\* [0-9]
Digit09 == 48 .. 57
\* [A-Za-z]
AsciiLetter == UpperAZ \cup LowerAZ
\* [A-Za-z0-9]
AsciiAlnum == AsciiLetter \cup Digit09
\* The code units of the model (Latin-1).
CodeUnit == 0 .. 255
\* \s, and what String.prototype.trim strips, within Latin-1.
WhiteSpace == {9, 10, 11, 12, 13, 32, 160}
\* [\s_-]
Separator == WhiteSpace \cup {95, 45}
\* [^A-Za-z0-9.]
NotAlnumDot == CodeUnit \ (AsciiAlnum \cup {46})
\* [^A-Za-z0-9-]
NotAlnumHyphen == CodeUnit \ (AsciiAlnum \cup {45})
\* [^A-Za-z0-9]
NotAlnum == CodeUnit \ AsciiAlnum
\* [a-z0-9]
LowerOrDigit == LowerAZ \cup Digit09

\* The characters inputs are drawn from:
\*   'a' 'A' '1' ' ' '_' '-' '.' '!' and the non-ASCII letter e-acute.
Alphabet == {97, 65, 49, 32, 95, 45, 46, 33, 233}

-----------------------------------------------------------------------------
(* JavaScript values and outcomes.                                         *)

StrVal(s) == [tag |-> "string", str |-> s, num |-> 0]
NumVal(n) == [tag |-> "number", str |-> <<>>, num |-> n]
NullVal == [tag |-> "null", str |-> <<>>, num |-> 0]
BoolVal == [tag |-> "boolean", str |-> <<>>, num |-> 1]
ObjVal == [tag |-> "object", str |-> <<>>, num |-> 0]
UndefVal == [tag |-> "undefined", str |-> <<>>, num |-> 0]

Return(v) == [kind |-> "return", val |-> v, err |-> "none"]
Throw(e) == [kind |-> "throw", val |-> UndefVal, err |-> e]
NotCalled == [kind |-> "none", val |-> UndefVal, err |-> "none"]

Strings == UNION {[1 .. n -> Alphabet] : n \in 0 .. MaxLen}
Values ==
    {StrVal(s) : s \in Strings} \cup {NumVal(n) : n \in (0 - MaxNum) .. MaxNum}
        \cup {NullVal, BoolVal, ObjVal, UndefVal}

-----------------------------------------------------------------------------
(* String primitives of the JavaScript runtime the source calls.           *)

\* Character-level lower/upper casing (ASCII and the Latin-1 letters).
LowerOf(c) ==
    IF c \in UpperAZ \/ (c \in 192 .. 222 /\ c # 215) THEN c + 32 ELSE c
UpperOf(c) ==
    IF c \in LowerAZ \/ (c \in 224 .. 254 /\ c # 247) THEN c - 32 ELSE c

toLowerCase(s) == [i \in 1 .. Len(s) |-> LowerOf(s[i])]
toUpperCase(s) == [i \in 1 .. Len(s) |-> UpperOf(s[i])]

RECURSIVE TrimStart(_)
TrimStart(s) ==
    IF s # <<>> /\ Head(s) \in WhiteSpace THEN TrimStart(Tail(s)) ELSE s

RECURSIVE TrimEnd(_)
TrimEnd(s) ==
    IF s # <<>> /\ s[Len(s)] \in WhiteSpace
    THEN TrimEnd(SubSeq(s, 1, Len(s) - 1))
    ELSE s

trim(s) == TrimEnd(TrimStart(s))

\* regex.test(s) for a one-character class
test(cls, s) == \E i \in 1 .. Len(s) : s[i] \in cls

\* s without its leading run of characters of cls
RECURSIVE DropRun(_, _)
DropRun(s, cls) ==
    IF s # <<>> /\ Head(s) \in cls THEN DropRun(Tail(s), cls) ELSE s

\* s.split(/[cls]+/): the pieces between maximal runs of cls, empty pieces at
\* the ends included.
RECURSIVE SplitFrom(_, _, _)
SplitFrom(s, cls, cur) ==
    IF s = <<>> THEN <<cur>>
    ELSE IF Head(s) \in cls
         THEN <<cur>> \o SplitFrom(DropRun(s, cls), cls, <<>>)
         ELSE SplitFrom(Tail(s), cls, Append(cur, Head(s)))

split(s, cls) == SplitFrom(s, cls, <<>>)

\* parts.filter(Boolean): the non-empty strings
filterBoolean(parts) == SelectSeq(parts, LAMBDA p : p # <<>>)

\* s.replace(/[cls]+/g, rep)
RECURSIVE replaceRuns(_, _, _)
replaceRuns(s, cls, rep) ==
    IF s = <<>> THEN <<>>
    ELSE IF Head(s) \in cls
         THEN rep \o replaceRuns(DropRun(s, cls), cls, rep)
         ELSE <<Head(s)>> \o replaceRuns(Tail(s), cls, rep)

\* parts.join(sep)
RECURSIVE join(_, _)
join(parts, sep) ==
    IF parts = <<>> THEN <<>>
    ELSE IF Len(parts) = 1 THEN parts[1]
    ELSE parts[1] \o sep \o join(Tail(parts), sep)

\* The decimal digits of a natural number.
RECURSIVE Digits(_)
Digits(n) ==
    IF n < 10 THEN <<48 + n>> ELSE Append(Digits(n \div 10), 48 + (n % 10))

\* String(n) for an integer n
String(n) == IF n < 0 THEN <<45>> \o Digits(0 - n) ELSE Digits(n)

-----------------------------------------------------------------------------
(* refined_prompt.js: toCamelCase                                          *)

\* Faulty variant of Coerce: the number branch is missing.
CoerceNothing(v) == v

\* typeof input === 'number' -> String(input); typeof input !== 'string' -> throw
Coerce(v) ==
    IF v.tag = "number" THEN StrVal(String(v.num)) ELSE v

AcceptsStringOrNumber(v) == Coerce(v).tag = "string"

hasSeparator(str) == test(Separator, str)

\* /[A-Za-z]/.test(str) && str === str.toUpperCase()
isAllUpper(str) == test(AsciiLetter, str) /\ str = toUpperCase(str)

\* Faulty variant of capitalize: the segment is not lowercased first.
capitalizeKeepsRest(seg) ==
    IF seg = <<>> THEN <<>>
    ELSE <<UpperOf(seg[1])>> \o SubSeq(seg, 2, Len(seg))

\* lower.charAt(0).toUpperCase() + lower.slice(1), lower = seg.toLowerCase()
capitalize(seg) ==
    LET lower == toLowerCase(seg)
    IN  IF lower = <<>> THEN <<>>
        ELSE <<UpperOf(lower[1])>> \o SubSeq(lower, 2, Len(lower))

\* Faulty variant of camelSegments: '_' and '-' do not split.
camelSegmentsWhitespaceOnly(str) == filterBoolean(split(str, WhiteSpace))

\* str.split(/[\s_-]+/).filter(Boolean)
camelSegments(str) == filterBoolean(split(str, Separator))

\* [first, ...rest].join('')
camelJoin(segments) ==
    LET first == toLowerCase(segments[1])
        rest == [i \in 1 .. Len(segments) - 1 |-> capitalize(segments[i + 1])]
    IN  join(<<first>> \o rest, <<>>)

\* Faulty variant of the no-separator branch: always lowercases.
camelNoSeparatorLowercases(str) == toLowerCase(str)

\* Faulty variant of the no-separator branch: a string without letters and
\* digits is dropped.
camelNoSeparatorDropsPunctuation(str) ==
    IF ~test(AsciiAlnum, str) THEN <<>>
    ELSE IF isAllUpper(str) THEN toLowerCase(str) ELSE str

\* The no-separator branch.
camelNoSeparator(str) == IF isAllUpper(str) THEN toLowerCase(str) ELSE str

camelOfString(inp) ==
    LET str == trim(inp)
    IN  IF Len(str) = 0 THEN <<>>
        ELSE IF ~hasSeparator(str) THEN camelNoSeparator(str)
        ELSE LET segments == camelSegments(str)
             IN  IF Len(segments) = 0 THEN <<>> ELSE camelJoin(segments)

toCamelCase(v) ==
    IF ~AcceptsStringOrNumber(v) THEN Throw("TypeError")
    ELSE Return(StrVal(camelOfString(Coerce(v).str)))

-----------------------------------------------------------------------------
(* refined_prompt.js: toDotCase                                            *)

\* Faulty variant of breakCamel: the g flag is missing, only the first
\* boundary gets a dot.
RECURSIVE breakCamelFirstOnly(_)
breakCamelFirstOnly(s) ==
    IF Len(s) < 2 THEN s
    ELSE IF s[1] \in LowerOrDigit /\ s[2] \in UpperAZ
         THEN <<s[1], 46>> \o Tail(s)
         ELSE <<s[1]>> \o breakCamelFirstOnly(Tail(s))

\* str.replace(/([a-z0-9])([A-Z])/g, '$1.$2'): one left-to-right pass; a match
\* consumes both characters.
RECURSIVE breakCamel(_)
breakCamel(s) ==
    IF Len(s) < 2 THEN s
    ELSE IF s[1] \in LowerOrDigit /\ s[2] \in UpperAZ
         THEN <<s[1], 46, s[2]>> \o breakCamel(SubSeq(s, 3, Len(s)))
         ELSE <<s[1]>> \o breakCamel(Tail(s))

\* Faulty variant of dotSeparators: only whitespace, '_' and '-' become dots.
dotSeparatorsKeepsPunctuation(s) == replaceRuns(s, Separator, <<46>>)

\* s.replace(/[^A-Za-z0-9.]+/g, '.')
dotSeparators(s) == replaceRuns(s, NotAlnumDot, <<46>>)

\* s.replace(/\.+/g, '.')
collapseDots(s) == replaceRuns(s, {46}, <<46>>)

\* s.replace(/^\.+|\.+$/g, '')
RECURSIVE DropEndDots(_)
DropEndDots(s) ==
    IF s # <<>> /\ s[Len(s)] = 46 THEN DropEndDots(SubSeq(s, 1, Len(s) - 1))
    ELSE s

stripDots(s) == DropEndDots(DropRun(s, {46}))

\* s.split('.').filter(Boolean).map(part => part.toLowerCase()).join('.')
dotJoin(s) ==
    LET parts == filterBoolean(split(s, {46}))
    IN  join([i \in 1 .. Len(parts) |-> toLowerCase(parts[i])], <<46>>)

dotOfString(inp) ==
    LET str == trim(inp)
    IN  IF Len(str) = 0 THEN <<>>
        ELSE LET s == stripDots(collapseDots(dotSeparators(breakCamel(str))))
             IN  IF Len(s) = 0 THEN <<>> ELSE dotJoin(s)

toDotCase(v) ==
    IF ~AcceptsStringOrNumber(v) THEN Throw("TypeError")
    ELSE Return(StrVal(dotOfString(Coerce(v).str)))

-----------------------------------------------------------------------------
(* chain_prompt.js: toKebabCase                                            *)

\* trimmed.replace(/\s+/g, '-')
hyphenateSpaces(s) == replaceRuns(s, WhiteSpace, <<45>>)

\* kebab.replace(/[^A-Za-z0-9-]+/g, '')
removeDisallowed(s) == replaceRuns(s, NotAlnumHyphen, <<>>)

\* kebab.replace(/-+/g, '-')
collapseHyphens(s) == replaceRuns(s, {45}, <<45>>)

kebabNormalize(trimmed) ==
    toLowerCase(collapseHyphens(removeDisallowed(hyphenateSpaces(trimmed))))

\* Faulty variant of kebabUnconvertible: digits do not count.
kebabUnconvertibleLettersOnly(kebab) == ~test(LowerAZ, kebab)

\* !/[a-z0-9]/.test(kebab)
kebabUnconvertible(kebab) == ~test(LowerOrDigit, kebab)

kebabAccepts(v) == v.tag \in {"null", "string"}

toKebabCase(v) ==
    IF v.tag = "null" THEN Return(NullVal)
    ELSE IF ~kebabAccepts(v) THEN Throw("TypeError")
    ELSE LET trimmed == trim(v.str)
         IN  IF Len(trimmed) = 0 THEN Return(StrVal(<<>>))
             ELSE LET kebab == kebabNormalize(trimmed)
                  IN  IF kebabUnconvertible(kebab) THEN Throw("Error")
                      ELSE Return(StrVal(kebab))

-----------------------------------------------------------------------------
(* few_shot_prompt.js: toCamelCase                                         *)

\* Faulty variant of fewShotCapitalize: the rest is not lowercased.
fewShotCapitalizeKeepsRest(p) ==
    IF p = <<>> THEN <<>>
    ELSE <<UpperOf(p[1])>> \o SubSeq(p, 2, Len(p))

\* p.charAt(0).toUpperCase() + p.slice(1).toLowerCase()
fewShotCapitalize(p) ==
    IF p = <<>> THEN <<>>
    ELSE <<UpperOf(p[1])>> \o toLowerCase(SubSeq(p, 2, Len(p)))

\* input.trim().split(/[^A-Za-z0-9]+/).filter(Boolean)
fewShotParts(inp) == filterBoolean(split(trim(inp), NotAlnum))

fewShotOfString(inp) ==
    LET parts == fewShotParts(inp)
    IN  IF Len(parts) = 0 THEN <<>>
        ELSE LET first == toLowerCase(parts[1])
                 rest == join([i \in 1 .. Len(parts) - 1 |->
                                  fewShotCapitalize(parts[i + 1])], <<>>)
             IN  first \o rest

fewShotToCamelCase(v) ==
    IF v.tag # "string" THEN Return(StrVal(<<>>))
    ELSE Return(StrVal(fewShotOfString(v.str)))

-----------------------------------------------------------------------------
(* The state machine: an input value is chosen, one function is applied to *)
(* it, and the output of toCamelCase may be passed to toCamelCase again.   *)

Init ==
    /\ input \in Values
    /\ fn = "none"
    /\ out = NotCalled
    /\ fed = FALSE

CallToCamelCase ==
    /\ fn = "none"
    /\ fn' = "toCamelCase"
    /\ out' = toCamelCase(input)
    /\ UNCHANGED <<input, fed>>

CallToDotCase ==
    /\ fn = "none"
    /\ fn' = "toDotCase"
    /\ out' = toDotCase(input)
    /\ UNCHANGED <<input, fed>>

CallToKebabCase ==
    /\ fn = "none"
    /\ fn' = "toKebabCase"
    /\ out' = toKebabCase(input)
    /\ UNCHANGED <<input, fed>>

CallFewShotToCamelCase ==
    /\ fn = "none"
    /\ fn' = "fewShotToCamelCase"
    /\ out' = fewShotToCamelCase(input)
    /\ UNCHANGED <<input, fed>>

\* toCamelCase(toCamelCase(x)): the returned string is the next input.
ReapplyToCamelCase ==
    /\ fn = "toCamelCase"
    /\ out.kind = "return"
    /\ ~fed
    /\ input' = out.val
    /\ out' = toCamelCase(out.val)
    /\ fed' = TRUE
    /\ UNCHANGED fn

Next ==
    \/ CallToCamelCase
    \/ CallToDotCase
    \/ CallToKebabCase
    \/ CallFewShotToCamelCase
    \/ ReapplyToCamelCase

Spec == Init /\ [][Next]_vars

-----------------------------------------------------------------------------
(* Properties.                                                             *)

OnlyFrom(s, cls) == \A i \in 1 .. Len(s) : s[i] \in cls
NoDouble(s, c) == \A i \in 1 .. Len(s) - 1 : ~(s[i] = c /\ s[i + 1] = c)
Returned(f) == fn = f /\ out.kind = "return" /\ out.val.tag = "string"
ReturnedNonEmpty(f) == Returned(f) /\ out.val.str # <<>>
ThrewTypeError == out.kind = "throw" /\ out.err = "TypeError"
ThrewError == out.kind = "throw" /\ out.err = "Error"
InputIsString == input.tag = "string"
Abs(n) == IF n < 0 THEN 0 - n ELSE n

\* The number a string of decimal digits denotes.
RECURSIVE DecimalValue(_)
DecimalValue(s) ==
    IF s = <<>> THEN 0
    ELSE DecimalValue(SubSeq(s, 1, Len(s) - 1)) * 10 + (s[Len(s)] - 48)

\* C1: a non-empty string returned by toKebabCase holds only lowercase ASCII
\* letters, digits and hyphens, does not start with a hyphen, does not end
\* with a hyphen and holds no two hyphens in a row.
C1_KebabShape ==
    ReturnedNonEmpty("toKebabCase") =>
        LET k == out.val.str
        IN  /\ OnlyFrom(k, LowerOrDigit \cup {45})
            /\ k[1] # 45
            /\ k[Len(k)] # 45
            /\ NoDouble(k, 45)

\* A string that holds an ASCII letter and equals its own uppercase form.
AllUppercase(s) ==
    test(AsciiLetter, s) /\ \A i \in 1 .. Len(s) : UpperOf(s[i]) = s[i]

\* C2 as stated: the output y of toCamelCase holds no separator, is not
\* all-uppercase, and toCamelCase(y) = y.
C2_Idempotent ==
    (fed /\ fn = "toCamelCase") =>
        /\ ~test(Separator, input.str)
        /\ ~AllUppercase(input.str)
        /\ out = Return(input)

\* C2 as amended: the output y of toCamelCase holds no separator, and
\* toCamelCase(y) = y whenever y is not all-uppercase; an all-uppercase
\* output (such as '1A' from '1_a') is lowercased by the second application,
\* and that result is returned unchanged by a third.
C2_IdempotentUnlessUpper ==
    (fed /\ fn = "toCamelCase") =>
        /\ ~test(Separator, input.str)
        /\ ~AllUppercase(input.str) => out = Return(input)
        /\ AllUppercase(input.str) =>
              /\ out = Return(StrVal(toLowerCase(input.str)))
              /\ toCamelCase(out.val) = out

C2_Witness ==
    /\ fed /\ fn = "toCamelCase"
    /\ test(UpperAZ, input.str) /\ test(LowerOrDigit, input.str)
    /\ Len(input.str) > 2
    /\ out = Return(input)

C2_WitnessUpper ==
    /\ fed /\ fn = "toCamelCase"
    /\ AllUppercase(input.str)
    /\ out # Return(input)

\* Hyphens and punctuation: '-' '_' '.' '!'
Punctuation == {45, 95, 46, 33}
OnlyPunctuation(s) == s # <<>> /\ OnlyFrom(s, Punctuation)
WithoutSeparators(s) == SelectSeq(s, LAMBDA c : c \notin Separator)

\* C3 as stated: for every non-empty string made only of hyphens and
\* punctuation, toCamelCase returns the empty string.
C3_PunctuationGivesEmpty ==
    (fn = "toCamelCase" /\ ~fed /\ InputIsString /\ OnlyPunctuation(input.str))
        => out = Return(StrVal(<<>>))

\* C3 as amended: for every non-empty string made only of hyphens and
\* punctuation, toCamelCase returns the string without its separators
\* ('-' and '_'); this is the empty string exactly when every character is
\* a separator, and other punctuation is kept.
C3_PunctuationKept ==
    (fn = "toCamelCase" /\ ~fed /\ InputIsString /\ OnlyPunctuation(input.str))
        => /\ out = Return(StrVal(WithoutSeparators(input.str)))
           /\ (out.val.str = <<>>) <=> OnlyFrom(input.str, Separator)

C3_Witness ==
    /\ fn = "toCamelCase" /\ ~fed /\ InputIsString
    /\ OnlyPunctuation(input.str)
    /\ test({45}, input.str) /\ test({33}, input.str)
    /\ out.kind = "return" /\ out.val.str # <<>>

C3_WitnessEmpty ==
    /\ fn = "toCamelCase" /\ ~fed /\ InputIsString
    /\ OnlyPunctuation(input.str) /\ Len(input.str) > 1
    /\ out = Return(StrVal(<<>>))

\* C4: a non-empty string returned by toDotCase (for a string or a number)
\* holds only lowercase ASCII letters, digits and dots, does not start with a
\* dot, does not end with a dot and holds no two dots in a row.
C4_DotShape ==
    ReturnedNonEmpty("toDotCase") =>
        LET d == out.val.str
        IN  /\ OnlyFrom(d, LowerOrDigit \cup {46})
            /\ d[1] # 46
            /\ d[Len(d)] # 46
            /\ NoDouble(d, 46)

C4_Witness ==
    /\ ReturnedNonEmpty("toDotCase")
    /\ InputIsString
    /\ input.str[1] \in {46, 33}
    /\ test(UpperAZ, input.str)
    /\ test({46}, out.val.str)

\* C5: toCamelCase and toDotCase throw a TypeError exactly on the values that
\* are neither strings nor numbers, and treat a number as its decimal string;
\* toKebabCase returns null for null, throws a TypeError exactly on the values
\* that are neither strings nor null, and so never coerces a number.
C5_TypeRejection ==
    /\ (fn \in {"toCamelCase", "toDotCase"}) =>
          /\ ThrewTypeError <=> input.tag \notin {"string", "number"}
          /\ out.kind = "throw" => ThrewTypeError /\ out.val = UndefVal
          /\ input.tag = "number" =>
                /\ Returned(fn)
                /\ OnlyFrom(out.val.str, Digit09)
                /\ out.val.str # <<>>
                /\ DecimalValue(out.val.str) = Abs(input.num)
    /\ (fn = "toKebabCase") =>
          /\ ThrewTypeError <=> input.tag \notin {"string", "null"}
          /\ out.kind = "throw" => out.val = UndefVal
          /\ input.tag = "null" => out = Return(NullVal)
          /\ input.tag = "number" => ThrewTypeError

C5_Witness ==
    /\ fn = "toDotCase"
    /\ input.tag = "number" /\ input.num > 9
    /\ out.kind = "return" /\ Len(out.val.str) = 2

C5_WitnessThrow ==
    /\ fn = "toKebabCase" /\ input.tag = "number" /\ ThrewTypeError

\* C6: toKebabCase throws the generic error exactly when its input is a string
\* with a non-whitespace character and no ASCII letter or digit; on every
\* other string it returns: '' for an empty or whitespace-only string, and a
\* string with a lowercase letter or digit otherwise.  No other function
\* throws the generic error.
HasVisible(s) == \E i \in 1 .. Len(s) : s[i] \notin WhiteSpace

C6_Unconvertible ==
    /\ (fn = "toKebabCase" /\ InputIsString) =>
          /\ ThrewError <=> (HasVisible(input.str) /\ ~test(AsciiAlnum, input.str))
          /\ ~ThrewError => Returned("toKebabCase")
          /\ ~HasVisible(input.str) => out = Return(StrVal(<<>>))
          /\ test(AsciiAlnum, input.str) =>
                Returned("toKebabCase") /\ test(LowerOrDigit, out.val.str)
    /\ (fn # "toKebabCase") => ~ThrewError

C6_Witness ==
    /\ fn = "toKebabCase" /\ InputIsString /\ ThrewError
    /\ test({45}, input.str) /\ test({233}, input.str)

C6_WitnessReturn ==
    /\ Returned("toKebabCase") /\ InputIsString
    /\ test({33}, input.str) /\ test({49}, out.val.str)

\* C7: for a string whose trimmed form is non-empty and holds no separator,
\* toCamelCase returns the lowercase form when the trimmed form holds an ASCII
\* letter and equals its own uppercase form, and the trimmed form unchanged
\* otherwise; mixed-case and pure-digit strings come back character for
\* character.
NoSeparatorInput ==
    /\ fn = "toCamelCase" /\ ~fed /\ InputIsString
    /\ trim(input.str) # <<>>
    /\ ~test(Separator, trim(input.str))

C7_NoSeparator ==
    NoSeparatorInput =>
        LET t == trim(input.str)
            upper == test(AsciiLetter, t) /\ t = toUpperCase(t)
        IN  /\ upper => out = Return(StrVal(toLowerCase(t)))
            /\ ~upper => out = Return(StrVal(t))
            /\ (test(LowerAZ, t) \/ OnlyFrom(t, Digit09)) => out.val.str = t

C7_Witness ==
    /\ NoSeparatorInput
    /\ test(LowerAZ, input.str) /\ test(UpperAZ, input.str)
    /\ test(WhiteSpace, input.str)
    /\ out.val.str = trim(input.str)

C7_WitnessUpper ==
    /\ NoSeparatorInput
    /\ Len(trim(input.str)) > 1
    /\ out.val.str # trim(input.str)

\* The camelCase of a trimmed string, character by character: separators are
\* dropped; a character that follows a separator, after some segment has
\* begun, is lowercased and then uppercased; every other one is lowercased.
RECURSIVE CamelByChar(_, _, _)
CamelByChar(t, i, started) ==
    IF i > Len(t) THEN <<>>
    ELSE IF t[i] \in Separator THEN CamelByChar(t, i + 1, started)
    ELSE <<IF started /\ t[i - 1] \in Separator
           THEN UpperOf(LowerOf(t[i]))
           ELSE LowerOf(t[i])>> \o CamelByChar(t, i + 1, TRUE)

SeparatedInput ==
    /\ fn = "toCamelCase" /\ ~fed /\ InputIsString
    /\ test(Separator, trim(input.str))

\* C8: for a string whose trimmed form holds a separator, toCamelCase returns
\* the non-empty segments between separator runs joined in order, the first
\* lowercased, each later one lowercased with its first character uppercased;
\* the result holds no separator and is '' when no segment is non-empty.
C8_Separated ==
    SeparatedInput =>
        /\ out = Return(StrVal(CamelByChar(trim(input.str), 1, FALSE)))
        /\ ~test(Separator, out.val.str)
        /\ OnlyFrom(input.str, Separator) => out.val.str = <<>>

C8_Witness ==
    /\ SeparatedInput
    /\ Len(camelSegments(trim(input.str))) = 2
    /\ input.str[1] \in Separator
    /\ test(UpperAZ, out.val.str) /\ test(LowerAZ, out.val.str)

\* Position i of s is a camelCase boundary: a lowercase letter or digit at
\* i - 1, an uppercase letter at i.
Boundary(s, i) == i > 1 /\ s[i - 1] \in LowerOrDigit /\ s[i] \in UpperAZ
Boundaries(s) == {i \in 1 .. Len(s) : Boundary(s, i)}

RECURSIVE DotByChar(_, _)
DotByChar(s, i) ==
    IF i > Len(s) THEN <<>>
    ELSE (IF Boundary(s, i) THEN <<46, LowerOf(s[i])>> ELSE <<LowerOf(s[i])>>)
             \o DotByChar(s, i + 1)

AlnumInput ==
    /\ fn = "toDotCase" /\ InputIsString
    /\ input.str # <<>> /\ OnlyFrom(input.str, AsciiAlnum)

\* C9: for a non-empty input of ASCII letters and digits only, toDotCase
\* returns the lowercased input with exactly one dot at every position where
\* a lowercase letter or digit is followed by an uppercase letter; the number
\* of dots is the number of such pairs.
C9_EveryBoundary ==
    AlnumInput =>
        /\ out = Return(StrVal(DotByChar(input.str, 1)))
        /\ Cardinality({i \in 1 .. Len(out.val.str) : out.val.str[i] = 46})
              = Cardinality(Boundaries(input.str))

C9_Witness ==
    /\ AlnumInput
    /\ Cardinality(Boundaries(input.str)) = 2
    /\ out.kind = "return"

\* C10: on a string of ASCII letters, digits, whitespace, '_' and '-' whose
\* trimmed form holds a separator, the few-shot toCamelCase returns what the
\* refined toCamelCase returns.
FewShotDomain ==
    /\ InputIsString
    /\ OnlyFrom(input.str, AsciiAlnum \cup Separator)
    /\ test(Separator, trim(input.str))

C10_FewShotAgrees ==
    /\ (fn = "fewShotToCamelCase" /\ FewShotDomain) => out = toCamelCase(input)
    /\ (fn = "toCamelCase" /\ ~fed /\ FewShotDomain) =>
          out = fewShotToCamelCase(input)

C10_Witness ==
    /\ fn = "fewShotToCamelCase" /\ FewShotDomain
    /\ Len(fewShotParts(input.str)) = 2
    /\ Len(out.val.str) = 3
    /\ test(UpperAZ, SubSeq(input.str, 2, Len(input.str)))
    /\ out.kind = "return"

====
